---- MODULE Spec2Model ----
(***************************************************************************)
(* CACA (Cellular Automata CryptAnalysis): the cellular-automaton          *)
(* processor, its scalar/SIMD kernels and the SIMD dispatcher.             *)
(*                                                                         *)
(* A BitSequence is a sequence of BOOLEAN (bit i of the code is element    *)
(* i+1 here).  size_t arithmetic wraps modulo 2^SizeBits; the width is     *)
(* scaled down from 64 so that the wrap-around of the code's unsigned      *)
(* arithmetic stays inside the range of the model checker's integers.      *)
(***************************************************************************)
EXTENDS Integers, Sequences, FiniteSets, TLC

\* ------------------------------------------------------------------ bounds
MaxLen == 2
MaxWidth == 3
MaxThreads == 2
MaxIter == 2
KernelMaxLen == 4
SizeBits == 12

\* ------------------------------------------------------- program constants
Rule30 == 30
Rule82 == 82
Rule110 == 110
Rule150 == 150
Custom == 0
BitsPerByte == 8

Rules == {Rule30, Rule82, Rule110, Rule150, Custom}
StandardRules == {Rule30, Rule82, Rule110, Rule150}
Neighborhoods == {"Moore", "VonNeumann", "OneDimensional"}
SIMDLevels == {"Scalar", "SSE2", "AVX", "AVX2", "AVX512F", "AVX512VNNI", "NEON"}

\* ------------------------------------------------------- size_t arithmetic
SIZE_MOD == 2 ^ SizeBits
SIZE_MAX == SIZE_MOD - 1
SzAdd(a, b) == (a + b) % SIZE_MOD
SzSub(a, b) == (a - b + SIZE_MOD) % SIZE_MOD
SzMul(a, b) == (a * b) % SIZE_MOD

\* static_cast<int>(size_t): keep the low half of the bits, two's complement
INT_MOD == 2 ^ (SizeBits \div 2)
ToInt(v) == LET low == v % INT_MOD
            IN IF low >= INT_MOD \div 2 THEN low - INT_MOD ELSE low
\* int -> size_t conversion in mixed arithmetic
ToSize(v) == (v + SIZE_MOD) % SIZE_MOD

\* static_cast<size_t>(std::sqrt(n))
RECURSIVE SqrtFrom(_, _)
SqrtFrom(n, r) == IF (r + 1) * (r + 1) > n THEN r ELSE SqrtFrom(n, r + 1)
Sqrt(n) == SqrtFrom(n, 0)

\* ---------------------------------------------------------- BitSequence
BitSeqs(n) == [1..n -> BOOLEAN]
AllBitSeqs == UNION {BitSeqs(n) : n \in 0..MaxLen}
Zeros(n) == [k \in 1..n |-> FALSE]

\* The storage unit (byte) that holds bit i
ByteOf(i) == i \div BitsPerByte
SameByte(i, j) == ByteOf(i) = ByteOf(j)

\* The number of bits in the ceil(n / 8) bytes that back n bits
StorageBits(n) == BitsPerByte * ((n + BitsPerByte - 1) \div BitsPerByte)

\* operator[] const: a read at index idx.  An index >= size() is outside the
\* sequence: in the last byte it meets a tail bit, which is zero; past the
\* last byte it yields whatever the memory holds there (mem is the set of
\* such indices whose memory reads as a 1 bit).
Get(d, idx, mem) ==
    IF idx < Len(d) THEN d[idx + 1]
    ELSE IF idx < StorageBits(Len(d)) THEN FALSE
    ELSE idx \in mem

\* --------------------------------------------- CellularAutomataKernel
\* A kernel is the record of the members set by the kernel's constructor:
\* [data, rule, neighborhood, width, height] (the destination buffer is passed
\* separately).
Kernel(data, rule, neighborhood, width, height) ==
    [data |-> data, rule |-> rule, neighborhood |-> neighborhood,
     width |-> width, height |-> height]

\* (rule_value & (1 << pattern)) != 0
RuleBit(rule_value, pattern) == (rule_value \div (2 ^ pattern)) % 2 = 1

\* Faulty variants of the neighbour indices: no wrap at the ends
Left1D_NoWrap(n, i) == SzSub(i, 1)
Right1D_NoWrap(n, i) == SzAdd(i, 1)

\* OneDimensional: the indices of the left and right neighbours of cell i
Left1D(n, i) == IF i > 0 THEN i - 1 ELSE SzSub(n, 1)
Right1D(n, i) == IF i < SzSub(n, 1) THEN SzAdd(i, 1) ELSE 0

Pattern1D(d, i, mem) ==
    (IF Get(d, Left1D(Len(d), i), mem) THEN 4 ELSE 0)
    + (IF Get(d, i, mem) THEN 2 ELSE 0)
    + (IF Get(d, Right1D(Len(d), i), mem) THEN 1 ELSE 0)

\* VonNeumann: the neighbours whose guard is true, each with the index read
VNNeighbors(i, w, h) ==
    LET x == i % w
        y == i \div w
    IN  (IF y > 0 THEN {<<"N", SzAdd(SzMul(y - 1, w), x)>>} ELSE {})
        \cup (IF x < SzSub(w, 1)
              THEN {<<"E", SzAdd(SzMul(y, w), SzAdd(x, 1))>>} ELSE {})
        \cup (IF y < SzSub(h, 1)
              THEN {<<"S", SzAdd(SzMul(SzAdd(y, 1), w), x)>>} ELSE {})
        \cup (IF x > 0 THEN {<<"W", SzAdd(SzMul(y, w), x - 1)>>} ELSE {})

\* Moore: the (dx, dy) that pass the int bounds test, each with the index read
MooreNeighbors(i, w, h) ==
    LET x == i % w
        y == i \div w
    IN  {<<dx, dy, SzAdd(SzMul(ToSize(ToInt(y) + dy), w), ToSize(ToInt(x) + dx))>> :
            <<dx, dy>> \in
              {p \in (-1..1) \X (-1..1) :
                  /\ ~(p[1] = 0 /\ p[2] = 0)
                  /\ ToInt(x) + p[1] >= 0
                  /\ ToInt(x) + p[1] < ToInt(w)
                  /\ ToInt(y) + p[2] >= 0
                  /\ ToInt(y) + p[2] < ToInt(h)}}

LivingVN(d, i, w, h, mem) ==
    Cardinality({p \in VNNeighbors(i, w, h) : Get(d, p[2], mem)})

LivingMoore(d, i, w, h, mem) ==
    Cardinality({p \in MooreNeighbors(i, w, h) : Get(d, p[3], mem)})

\* switch (m_rule) of the VonNeumann case
RuleVN(rule, alive, k) ==
    CASE rule = Rule30 -> (alive /\ k < 2) \/ (~alive /\ k >= 2)
      [] rule = Rule82 -> (alive /\ k < 3) \/ (~alive /\ k = 2)
      [] rule = Rule110 -> (alive /\ k # 4) \/ (~alive /\ k >= 1)
      [] rule = Rule150 -> k % 2 # 0
      [] OTHER -> alive

\* switch (m_rule) of the Moore case
RuleMoore(rule, alive, k) ==
    CASE rule = Rule30 -> k = 3 \/ (alive /\ k = 2)
      [] rule = Rule82 -> (~alive /\ k = 3) \/ (alive /\ (k = 2 \/ k = 3))
      [] rule = Rule110 -> (alive /\ k < 4) \/ (~alive /\ (k = 3 \/ k = 6))
      [] rule = Rule150 -> k % 2 # 0
      [] OTHER -> alive

\* The body of the scalar kernel's loop for cell i: next_state
NextState(kern, i, mem) ==
    CASE kern.neighborhood = "OneDimensional" ->
            RuleBit(kern.rule, Pattern1D(kern.data, i, mem))
      [] kern.neighborhood = "VonNeumann" ->
            RuleVN(kern.rule, Get(kern.data, i, mem),
                   LivingVN(kern.data, i, kern.width, kern.height, mem))
      [] kern.neighborhood = "Moore" ->
            RuleMoore(kern.rule, Get(kern.data, i, mem),
                      LivingMoore(kern.data, i, kern.width, kern.height, mem))

\* The indices of *m_data that the loop body reads for cell i
CellReads(kern, i) ==
    CASE kern.neighborhood = "OneDimensional" ->
            {Left1D(Len(kern.data), i), i, Right1D(Len(kern.data), i)}
      [] kern.neighborhood = "VonNeumann" ->
            {i} \cup {p[2] : p \in VNNeighbors(i, kern.width, kern.height)}
      [] kern.neighborhood = "Moore" ->
            {i} \cup {p[3] : p \in MooreNeighbors(i, kern.width, kern.height)}

RangeReads(kern, start, end) ==
    UNION {CellReads(kern, i) : i \in {j \in 0..(Len(kern.data) - 1) : start <= j /\ j < end}}

\* The reads at an index outside the sequence, and those of them that fall
\* outside its bytes
OutsideReads(kern, start, end) ==
    {idx \in RangeReads(kern, start, end) : idx >= Len(kern.data)}
UnallocatedReads(kern, start, end) ==
    {idx \in RangeReads(kern, start, end) : idx >= StorageBits(Len(kern.data))}

\* vectorize<uint64_t>(start_idx, end_idx) run by one thread on buffer buf
Vectorize_u64(kern, buf, start, end, mem) ==
    [k \in 1..Len(buf) |->
        IF start <= k - 1 /\ k - 1 < end THEN NextState(kern, k - 1, mem) ELSE buf[k]]

\* The SIMD specialisations, each of which falls back to the scalar version
Vectorize_m128i(kern, buf, start, end, mem) == Vectorize_u64(kern, buf, start, end, mem)
\* Faulty variant of the 256-bit specialisation: the last cell of the range is
\* left to a remainder loop that is missing
Vectorize_m256i_NoRemainder(kern, buf, start, end, mem) ==
    Vectorize_u64(kern, buf, start, IF end > start THEN end - 1 ELSE end, mem)
Vectorize_m256i(kern, buf, start, end, mem) == Vectorize_u64(kern, buf, start, end, mem)
Vectorize_m512i(kern, buf, start, end, mem) == Vectorize_u64(kern, buf, start, end, mem)
Vectorize_uint8x16(kern, buf, start, end, mem) == Vectorize_u64(kern, buf, start, end, mem)

\* ------------------------------------------------------- SIMDDispatcher
\* CPU feature sets, one per level that detectBestStrategy can return
CpuFeatureSets ==
    { {}, {"SSE2"}, {"SSE2", "AVX"}, {"SSE2", "AVX", "AVX2"},
      {"SSE2", "AVX", "AVX2", "AVX512F"},
      {"SSE2", "AVX", "AVX2", "AVX512F", "AVX512VNNI"}, {"NEON"} }

\* The preprocessor symbols of a build (each implies the lower ones on x86)
Builds ==
    { {}, {"__SSE2__"}, {"__SSE2__", "__AVX__", "__AVX2__"},
      {"__SSE2__", "__AVX__", "__AVX2__", "__AVX512F__"},
      {"__SSE2__", "__AVX__", "__AVX2__", "__AVX512F__", "__AVX512VNNI__"},
      {"__ARM_NEON__"} }

detectBestStrategy(features) ==
    CASE "AVX512VNNI" \in features -> "AVX512VNNI"
      [] "AVX512F" \in features -> "AVX512F"
      [] "AVX2" \in features -> "AVX2"
      [] "AVX" \in features -> "AVX"
      [] "SSE2" \in features -> "SSE2"
      [] "NEON" \in features -> "NEON"
      [] OTHER -> "Scalar"

\* The vectorize specialisation that execute's switch reaches in a build
ExecutePath(level, build) ==
    CASE level = "AVX512VNNI" /\ "__AVX512VNNI__" \in build -> "m512i"
      [] level = "AVX512F" /\ "__AVX512F__" \in build -> "m512i"
      [] level = "AVX2" /\ "__AVX2__" \in build -> "m256i"
      [] level = "AVX" /\ "__AVX__" \in build -> "m256i"
      [] level = "SSE2" /\ "__SSE2__" \in build -> "m128i"
      [] level = "NEON" /\ "__ARM_NEON__" \in build -> "uint8x16"
      [] OTHER -> "u64"

VectorizeAs(path, kern, buf, start, end, mem) ==
    CASE path = "m512i" -> Vectorize_m512i(kern, buf, start, end, mem)
      [] path = "m256i" -> Vectorize_m256i(kern, buf, start, end, mem)
      [] path = "m128i" -> Vectorize_m128i(kern, buf, start, end, mem)
      [] path = "uint8x16" -> Vectorize_uint8x16(kern, buf, start, end, mem)
      [] OTHER -> Vectorize_u64(kern, buf, start, end, mem)

\* The specialisations SIMDDispatcher::execute can reach: one for each CPU
\* and build, through detectBestStrategy and the switch
DispatchPaths ==
    {ExecutePath(detectBestStrategy(features), build) :
        features \in CpuFeatureSets, build \in Builds}

\* ------------------------------------------- CellularAutomataProcessor
\* User predicates given to setCustomRule, called as f(current, pos)
CustomFuncs == {"negate"}
CustomEval(f, d, pos) ==
    CASE f = "negate" -> ~d[pos + 1]

applyStandardRule(rule, pattern) == RuleBit(rule, pattern)

apply1DRule(d, rule, f, pos, mem) ==
    IF rule = Custom THEN CustomEval(f, d, pos)
    ELSE applyStandardRule(rule, Pattern1D(d, pos, mem))

applyVonNeumannRule(d, rule, f, w, h, pos, mem) ==
    IF rule = Custom THEN CustomEval(f, d, pos)
    ELSE RuleVN(rule, Get(d, pos, mem), LivingVN(d, pos, w, h, mem))

applyMooreRule(d, rule, f, w, h, pos, mem) ==
    IF rule = Custom THEN CustomEval(f, d, pos)
    ELSE RuleMoore(rule, Get(d, pos, mem), LivingMoore(d, pos, w, h, mem))

\* The constructor's grid dimensions for n bits and the width argument;
\* ok is FALSE when the auto width is 0 and the division has a zero divisor.
Geometry(n, width) ==
    LET w == IF width = 0 THEN Sqrt(n) ELSE width
    IN  IF w = 0 THEN [ok |-> FALSE, width |-> 0, height |-> 0]
        ELSE [ok |-> TRUE, width |-> w,
              height |-> SzSub(SzAdd(n, w), 1) \div w]

\* updateBuffer: the index range of worker i (0-based) of T
ChunkSize(n, T) == n \div T
ChunkStart(i, n, T) == SzMul(i, ChunkSize(n, T))
\* Faulty variant of the end of a range: the last worker gets no remainder
ChunkEnd_NoRemainder(i, n, T) == SzMul(i + 1, ChunkSize(n, T))

ChunkEnd(i, n, T) == IF i = SzSub(T, 1) THEN n ELSE SzMul(i + 1, ChunkSize(n, T))

\* ------------------------------------------------------------------ state
\* ============================================== statistical tests (NIST)
\* A double is <<"num", v>> with v in thousandths, <<"nan", 0>> or
\* <<"inf", 1>> (positive infinity).
Dbl(v) == <<"num", v>>
NaN == <<"nan", 0>>
PosInf == <<"inf", 1>>

\* a >= b and a <= b on doubles: every comparison with a NaN is false
Geq(a, b) ==
    /\ a[1] # "nan" /\ b[1] # "nan"
    /\ \/ a[1] = "inf"
       \/ a[1] = "num" /\ b[1] = "num" /\ a[2] >= b[2]
Leq(a, b) ==
    /\ a[1] # "nan" /\ b[1] # "nan"
    /\ \/ b[1] = "inf"
       \/ a[1] = "num" /\ b[1] = "num" /\ a[2] <= b[2]

\* StatisticalTest::DEFAULT_ALPHA = 0.01
DEFAULT_ALPHA == Dbl(10)

\* Faulty variant of isPassed: strict comparison
isPassed_Strict(alpha, p_value) == Geq(p_value, alpha) /\ p_value # alpha

\* StatisticalTest::isPassed
isPassed(alpha, p_value) == Geq(p_value, alpha)

\* The p-values a computation of erfc, exp, pow and tgamma on data-dependent
\* statistics may yield: samples of the doubles (0.01, NaN)
PSamples == {Dbl(10), NaN}

\* A test object: its kind and the members m_alpha, m_block_size and
\* m_template_length (0 where the class has no such member)
Test(kind, block_size, template_length) ==
    [kind |-> kind, m_alpha |-> DEFAULT_ALPHA, m_block_size |-> block_size,
     m_template_length |-> template_length]

\* getName()
getName(test) ==
    CASE test.kind = "Frequency" -> "Frequency (Monobit) Test"
      [] test.kind = "BlockFrequency" -> "Block Frequency Test"
      [] test.kind = "Runs" -> "Runs Test"
      [] test.kind = "LongestRun" -> "Longest Run of Ones Test"
      [] test.kind = "DFT" -> "Discrete Fourier Transform (Spectral) Test"
      [] test.kind = "NonOverlappingTemplate" -> "Non-overlapping Template Matching Test"
      [] test.kind = "OverlappingTemplate" -> "Overlapping Template Matching Test"

\* struct TestResult; additional_metrics holds the metrics the claims read
TestResult(test, p_value, passed, additional_metrics) ==
    [test_name |-> getName(test), p_value |-> p_value, passed |-> passed,
     additional_metrics |-> additional_metrics]

\* The early return of a test: p_value 0, passed false, metric "error"
ErrorResult(test, code) ==
    TestResult(test, Dbl(0), FALSE, [m \in {"error"} |-> Dbl(1000 * code)])

\* The normal return of a test, for each p-value in ps
Computed(test, ps, additional_metrics) ==
    {[kind |-> "result",
      result |-> TestResult(test, p, isPassed(test.m_alpha, p), additional_metrics)] :
        p \in ps}

Returned(r) == {[kind |-> "result", result |-> r]}
Crashed == {[kind |-> "crash"]}

\* BitSequence::countOnes and the ones of the block [start, start + len)
countOnes(data) == Cardinality({i \in 1..Len(data) : data[i]})
BlockOnes(data, start, len) ==
    Cardinality({j \in 0..(len - 1) : data[start + j + 1]})

\* BlockFrequencyTest: chi_squared, the sum over the blocks of
\* 4 * M * (pi - 0.5)^2 = (2 * ones - M)^2 / M, in thousandths
\* (the sum over the blocks lo .. hi - 1 is taken by halves)
RECURSIVE ChiSquaredOver(_, _, _, _)
ChiSquaredOver(data, M, lo, hi) ==
    IF hi <= lo THEN 0
    ELSE IF hi = lo + 1
    THEN LET d == 2 * BlockOnes(data, lo * M, M) - M
         IN  (1000 * d * d) \div M
    ELSE LET mid == (lo + hi) \div 2
         IN  ChiSquaredOver(data, M, lo, mid) + ChiSquaredOver(data, M, mid, hi)
ChiSquared(data, M, num_blocks) == ChiSquaredOver(data, M, 0, num_blocks)

\* exp(-chi/2) * pow(chi/2, N/2 - 1) / tgamma(N/2): at chi = 0 the power is
\* 0 for N > 2, 1 for N = 2 and +inf for N = 1; elsewhere a sample
PValueChiSquared(chi_squared, N) ==
    IF chi_squared = 0
    THEN IF N > 2 THEN {Dbl(0)} ELSE IF N = 2 THEN {Dbl(1000)} ELSE {PosInf}
    ELSE PSamples

\* No metric besides those set on the early returns is read by a property
NoMetrics == [m \in {} |-> Dbl(0)]

\* |pi - 0.5| >= 2 / sqrt(n) with pi = ones / n, i.e. (2 * ones - n)^2 >= 16 n
PiUnsuitable(data) ==
    LET n == Len(data)
        d == 2 * countOnes(data) - n
    IN  d * d >= 16 * n

\* FrequencyTest::execute
FrequencyTest_execute(test, data) ==
    IF Len(data) < 100 THEN Returned(ErrorResult(test, 1))
    ELSE Computed(test, PSamples, NoMetrics)

\* BlockFrequencyTest::execute. n / m_block_size with m_block_size = 0 is
\* undefined: the process is killed, or the quotient reads 0.
BlockFrequencyTest_execute(test, data) ==
    LET n == Len(data)
        M == test.m_block_size
    IN  IF n < 100 THEN Returned(ErrorResult(test, 1))
        ELSE IF M = 0 THEN Crashed \cup Returned(ErrorResult(test, 2))
        ELSE IF n \div M = 0 THEN Returned(ErrorResult(test, 2))
        ELSE LET num_blocks == n \div M
                 chi_squared == ChiSquared(data, M, num_blocks)
             IN  Computed(test, PValueChiSquared(chi_squared, num_blocks),
                          [m \in {"chi_squared"} |-> Dbl(chi_squared)])

\* RunsTest::execute
RunsTest_execute(test, data) ==
    IF Len(data) < 100 THEN Returned(ErrorResult(test, 1))
    ELSE IF PiUnsuitable(data) THEN Returned(ErrorResult(test, 2))
    ELSE Computed(test, PSamples, NoMetrics)

\* LongestRunTest::execute
LongestRunTest_execute(test, data) ==
    IF Len(data) < 128 THEN Returned(ErrorResult(test, 1))
    ELSE Computed(test, PSamples, NoMetrics)

\* Inputs of a run: alternating bits, and the chirp whose bit i is the parity
\* of floor(i^2 / 100)
Alternating(n) == [i \in 1..n |-> i % 2 = 1]
Chirp(n) == [i \in 1..n |-> (((i - 1) * (i - 1)) \div 100) % 2 = 1]

\* DFTTest::execute: N0, the count of the moduli |S[i]|, i < n / 2, below
\* T = sqrt(log(1 / 0.05) * n).  Evaluated numerically for the two inputs of
\* 1000 bits: every modulus of the alternating input is below T (the one
\* peak is at i = n / 2); 42 moduli of the chirp are above it.
ChirpInput == Chirp(1000)
BelowThreshold(data) ==
    IF data = ChirpInput THEN 458 ELSE Len(data) \div 2

\* size_t N1 = static_cast<size_t>(0.95 * n / 2)
ExpectedBelow(n) == (95 * n) \div 200

\* (N0 - N1): a subtraction of two size_t, converted to double afterwards
DftDifference(N0, N1) == SzSub(N0, N1)

\* DFTTest::execute.  d_statistic is held as its numerator (N0 - N1), the
\* divisor sqrt(n * 0.95 * 0.05 / 4) being positive; with a wrapped
\* numerator erfc(|d| / sqrt(2)) is 0.
DFTTest_execute(test, data) ==
    IF Len(data) < 1000 THEN Returned(ErrorResult(test, 1))
    ELSE LET N0 == BelowThreshold(data)
             N1 == ExpectedBelow(Len(data))
         IN  Computed(test, IF N0 < N1 THEN {Dbl(0)} ELSE PSamples,
                      [m \in {"frequencies_below_threshold",
                              "expected_below_threshold", "d_statistic"} |->
                         CASE m = "frequencies_below_threshold" -> Dbl(1000 * N0)
                           [] m = "expected_below_threshold" -> Dbl(1000 * N1)
                           [] m = "d_statistic" -> Dbl(1000 * DftDifference(N0, N1))])

\* size_t N = n / m_block_size, for a block size of 1 or more
TemplateBlocks(n, M) == n \div M

\* m_block_size - m_template_length, the last start position j of a block
ScanBound(M, m) == SzSub(M, m)

\* The greatest index read for certain: data[block_start + j + k] with k = 0
\* at the last start position of the last block
TemplateLastRead(n, M, m) == (TemplateBlocks(n, M) - 1) * M + ScanBound(M, m)

\* The scan of the template tests: j runs to m_block_size - m_template_length,
\* a size_t that wraps when the template is longer than the block; j then
\* runs on for some 2^64 turns and data[block_start + j + k] is read outside
\* the sequence: the call is killed, or does not return.
\* A block size of 0 divides by zero: killed, or no block is scanned.
TemplateScan(test, data) ==
    LET M == test.m_block_size
        m == test.m_template_length
    IN  IF M = 0 THEN Crashed \cup Computed(test, PSamples, NoMetrics)
        ELSE IF TemplateLastRead(Len(data), M, m) >= Len(data) THEN Crashed
        ELSE Computed(test, PSamples, NoMetrics)

\* NonOverlappingTemplateTest::execute
NonOverlappingTemplateTest_execute(test, data) ==
    IF Len(data) < test.m_block_size * 100 THEN Returned(ErrorResult(test, 1))
    ELSE TemplateScan(test, data)

\* OverlappingTemplateTest::execute
OverlappingTemplateTest_execute(test, data) ==
    IF Len(data) < test.m_block_size * 100 THEN Returned(ErrorResult(test, 1))
    ELSE TemplateScan(test, data)

\* test->execute(data): the virtual call
execute(test, data) ==
    CASE test.kind = "Frequency" -> FrequencyTest_execute(test, data)
      [] test.kind = "BlockFrequency" -> BlockFrequencyTest_execute(test, data)
      [] test.kind = "Runs" -> RunsTest_execute(test, data)
      [] test.kind = "LongestRun" -> LongestRunTest_execute(test, data)
      [] test.kind = "DFT" -> DFTTest_execute(test, data)
      [] test.kind = "NonOverlappingTemplate" -> NonOverlappingTemplateTest_execute(test, data)
      [] test.kind = "OverlappingTemplate" -> OverlappingTemplateTest_execute(test, data)

VARIABLES
    pc,                  \* where the caller of the processor stands
    m_data,              \* BitSequence m_data
    m_buffer,            \* BitSequence m_buffer
    m_rule,              \* CARule m_rule
    m_custom_rule_func,  \* std::function m_custom_rule_func ("empty" if unset)
    m_neighborhood,      \* CANeighborhood m_neighborhood
    m_width,             \* size_t m_width
    m_height,            \* size_t m_height
    m_num_threads,       \* size_t m_num_threads
    width_arg,           \* the width argument the constructor was given
    iterations,          \* process(): its parameter
    iter,                \* process(): the loop counter
    workers,             \* updateBuffer(): the chunk workers of this iteration
    gen,                 \* the generation m_data held when the workers started
    call,                \* m_data and m_buffer when process() was entered
    ret,                 \* the value process() returned last
    probe,               \* the arguments of the last direct kernel application
    events,              \* process(): the update_progress calls made so far
    m_tasks_mutex,       \* ProgressMonitor: the holder of std::mutex m_tasks_mutex
    monitor_pc,          \* ProgressMonitor: where the monitoring thread stands
    cancel_requested,    \* whether the caller has asked for the run to be cancelled
    m_tests,             \* TestSuite: std::vector m_tests
    m_alpha,             \* TestSuite: double m_alpha
    suite_pc,            \* where the caller of the suite stands
    suite_data,          \* the BitSequence the caller passes to runTests
    results,             \* runTests(): the vector results
    suite_call,          \* m_tests and the data when runTests() was entered
    raised,              \* whether the last setAlpha raised invalid_argument
    frequencies,         \* LongestRunTest::execute: std::vector frequencies
    block_index,         \* LongestRunTest::execute: the block loop's counter i
    s_instance,          \* CPUFeatures::s_instance (0: nullptr, else the object pointed to)
    created,             \* the CPUFeatures objects constructed so far
    detect_pc,           \* the threads calling CPUFeatures::detect()
    m_tasks,             \* ProgressMonitor: std::unordered_map m_tasks
    m_stop_monitoring,   \* ProgressMonitor: std::atomic<bool> m_stop_monitoring
    m_cv,                \* ProgressMonitor: whether the waiter of m_cv was notified
    owner_pc             \* where the thread that owns the ProgressMonitor stands

vars == <<pc, m_data, m_buffer, m_rule, m_custom_rule_func, m_neighborhood,
          m_width, m_height, m_num_threads, width_arg, iterations, iter,
          workers, gen, call, ret, probe, events, m_tasks_mutex, monitor_pc,
          cancel_requested, m_tests, m_alpha, suite_pc, suite_data, results,
          suite_call, raised, frequencies, block_index, s_instance, created,
          detect_pc, m_tasks, m_stop_monitoring, m_cv, owner_pc>>

config == <<m_rule, m_custom_rule_func, m_neighborhood, m_width, m_height,
            m_num_threads, width_arg>>
running == <<iterations, iter, workers, gen>>
monitor == <<events, m_tasks_mutex, monitor_pc>>
suite == <<m_tests, m_alpha, suite_pc, suite_data, results, suite_call, raised>>
processor == <<pc, m_data, m_buffer, config, running, call, ret, probe, monitor,
               cancel_requested>>
tally == <<frequencies, block_index>>
detection == <<s_instance, created, detect_pc>>
tasks == <<m_tasks, m_stop_monitoring, m_cv, owner_pc>>

NoSuiteCall == [tests |-> <<>>, data |-> <<>>]

\* TestSuite as constructed: no test, m_alpha = DEFAULT_ALPHA
SuiteNew ==
    /\ m_tests = <<>>
    /\ m_alpha = DEFAULT_ALPHA
    /\ suite_pc = "idle"
    /\ suite_data = <<>>
    /\ results = <<>>
    /\ suite_call = NoSuiteCall
    /\ raised = FALSE

\* No longest-run tally under way, no CPUFeatures object, no ProgressMonitor
\* watched on its own
TallyNew == frequencies = <<>> /\ block_index = 0
DetectionNew == s_instance = 0 /\ created = 0 /\ detect_pc = <<>>
TasksNew ==
    /\ m_tasks = <<>>
    /\ m_stop_monitoring = FALSE
    /\ m_cv = "quiet"
    /\ owner_pc = "none"

NoCall == [active |-> FALSE]
NoRet == [valid |-> FALSE]
NoProbe == [applied |-> FALSE]

\* Width arguments given to the constructor: automatic, a small grid width,
\* and the largest size_t
Widths == {0, MaxWidth, SIZE_MAX}

\* std::thread::hardware_concurrency(): a hint, 0 when it cannot be computed
HardwareConcurrency == 0..MaxThreads

Init ==
    /\ pc = "new"
    /\ m_data = <<>>
    /\ m_buffer = <<>>
    /\ m_rule = Rule30
    /\ m_custom_rule_func = "empty"
    /\ m_neighborhood = "Moore"
    /\ m_width = 0
    /\ m_height = 0
    /\ m_num_threads = 0
    /\ width_arg = 0
    /\ iterations = 0
    /\ iter = 0
    /\ workers = <<>>
    /\ gen = <<>>
    /\ call = NoCall
    /\ ret = NoRet
    /\ probe = NoProbe
    /\ events = 0
    /\ m_tasks_mutex = "free"
    /\ monitor_pc = "none"
    /\ cancel_requested = FALSE
    /\ SuiteNew
    /\ TallyNew
    /\ DetectionNew
    /\ TasksNew

\* CellularAutomataProcessor(data, rule, neighborhood, width)
Construct(data, rule, neighborhood, width, hc) ==
    /\ pc = "new"
    /\ m_data' = data
    /\ m_buffer' = Zeros(Len(data))
    /\ m_rule' = rule
    /\ m_neighborhood' = neighborhood
    /\ m_num_threads' = hc
    /\ width_arg' = width
    /\ LET g == Geometry(Len(data), width)
       IN  /\ m_width' = g.width
           /\ m_height' = g.height
           /\ pc' = IF g.ok THEN "idle" ELSE "crashed"
    /\ UNCHANGED <<m_custom_rule_func, running, call, ret, probe, monitor,
                   cancel_requested, suite, tally, detection, tasks>>

setRule(rule) ==
    /\ pc = "idle"
    /\ m_rule' = rule
    /\ call' = NoCall
    /\ ret' = NoRet
    /\ UNCHANGED <<pc, m_data, m_buffer, m_custom_rule_func, m_neighborhood, m_width,
                   m_height, m_num_threads, width_arg, running, probe, monitor,
                   cancel_requested, suite, tally, detection, tasks>>

setCustomRule(rule_func) ==
    /\ pc = "idle"
    /\ m_rule' = Custom
    /\ m_custom_rule_func' = rule_func
    /\ call' = NoCall
    /\ ret' = NoRet
    /\ UNCHANGED <<pc, m_data, m_buffer, m_neighborhood, m_width, m_height,
                   m_num_threads, width_arg, running, probe, monitor,
                   cancel_requested, suite, tally, detection, tasks>>

setNeighborhood(neighborhood) ==
    /\ pc = "idle"
    /\ m_neighborhood' = neighborhood
    /\ call' = NoCall
    /\ ret' = NoRet
    /\ UNCHANGED <<pc, m_data, m_buffer, m_rule, m_custom_rule_func, m_width, m_height,
                   m_num_threads, width_arg, running, probe, monitor,
                   cancel_requested, suite, tally, detection, tasks>>

setNumThreads(num_threads, hc) ==
    /\ pc = "idle"
    /\ m_num_threads' = IF num_threads > 0 THEN num_threads ELSE hc
    /\ call' = NoCall
    /\ ret' = NoRet
    /\ UNCHANGED <<pc, m_data, m_buffer, m_rule, m_custom_rule_func, m_neighborhood,
                   m_width, m_height, width_arg, running, probe, monitor,
                   cancel_requested, suite, tally, detection, tasks>>

\* process(iterations): entry; iterations = 0 returns m_data at once,
\* otherwise the ProgressMonitor is constructed, which starts its thread
process(n) ==
    /\ pc = "idle"
    /\ iterations' = n
    /\ iter' = 0
    /\ call' = [active |-> TRUE, data |-> m_data, buffer |-> m_buffer]
    /\ IF n = 0
       THEN /\ ret' = [valid |-> TRUE, value |-> m_data]
            /\ pc' = "done"
            /\ UNCHANGED monitor_pc
       ELSE /\ ret' = NoRet
            /\ pc' = "loop"
            /\ monitor_pc' = "wait"
    /\ UNCHANGED <<m_data, m_buffer, config, workers, gen, probe, events,
                   m_tasks_mutex, cancel_requested, suite, tally, detection, tasks>>

\* A chunk worker: its range [i, end) still to do, and for a cell being
\* written the storage byte it loaded with the new bit put in (tmp).
Worker(start, end) ==
    [pc |-> IF start < end THEN "compute" ELSE "done", i |-> start, end |-> end,
     tmp |-> <<>>]

\* updateBuffer(): the futures created by the loop over the threads
SpawnWorkers(n, T) ==
    [t \in 1..T |-> Worker(ChunkStart(t - 1, n, T), ChunkEnd(t - 1, n, T))]

\* Faulty variant of the barrier: only the first future is waited for
AllDone_FirstOnly(ws) == \A t \in DOMAIN ws : t = 1 => ws[t].pc = "done"

\* for (auto& future : futures) future.wait(): a future is ready when its
\* task has returned or has ended with an exception, which wait() does not
\* rethrow
AllDone(ws) == \A t \in DOMAIN ws : ws[t].pc \in {"done", "failed"}

\* process(): the loop test and monitor.update_progress(...), which takes
\* m_tasks_mutex; then either updateBuffer() up to the creation of the
\* workers, or (after the final update) the monitor's destructor, which joins
\* its thread, and the return of m_data.  chunk_size = size / m_num_threads
\* has a zero divisor when m_num_threads is 0.
LoopStep ==
    /\ pc = "loop"
    /\ m_tasks_mutex = "free"
    /\ events' = events + 1
    /\ IF iter < iterations
       THEN IF m_num_threads = 0
            THEN /\ pc' = "crashed"
                 /\ UNCHANGED <<workers, gen, ret, monitor_pc>>
            ELSE /\ workers' = SpawnWorkers(Len(m_data), m_num_threads)
                 /\ gen' = m_data
                 /\ pc' = "workers"
                 /\ UNCHANGED <<ret, monitor_pc>>
       ELSE /\ ret' = [valid |-> TRUE, value |-> m_data]
            /\ pc' = "done"
            /\ monitor_pc' = "joined"
            /\ UNCHANGED <<workers, gen>>
    /\ UNCHANGED <<m_data, m_buffer, config, iterations, iter, call, probe,
                   m_tasks_mutex, cancel_requested, suite, tally, detection, tasks>>

\* The bits of the buffer that share the storage byte of bit i
ByteBits(n, i) == {j \in 0..(n - 1) : SameByte(i, j)}

\* (*m_buffer)[i] = next_state, first half: read the byte, set the bit
LoadByte(buf, i, next_state) ==
    [j \in ByteBits(Len(buf), i) |-> IF j = i THEN next_state ELSE buf[j + 1]]

\* (*m_buffer)[i] = next_state, second half: write the byte back
StoreByte(buf, tmp) ==
    [k \in 1..Len(buf) |-> IF (k - 1) \in DOMAIN tmp THEN tmp[k - 1] ELSE buf[k]]

\* A worker computes next_state of its cell i from *m_data and loads the
\* byte of *m_buffer that holds bit i
WorkerCompute(t, mem) ==
    /\ t \in DOMAIN workers
    /\ workers[t].pc = "compute"
    /\ LET kern == Kernel(m_data, m_rule, m_neighborhood, m_width, m_height)
           next_state == NextState(kern, workers[t].i, mem)
       IN  workers' = [workers EXCEPT ![t].pc = "store",
                          ![t].tmp = LoadByte(m_buffer, workers[t].i, next_state)]
    /\ UNCHANGED <<pc, m_data, m_buffer, config, iterations, iter, gen, call, ret,
                   probe, monitor, cancel_requested, suite, tally, detection, tasks>>

\* A worker writes the byte back and moves to its next cell
WorkerStore(t) ==
    /\ t \in DOMAIN workers
    /\ workers[t].pc = "store"
    /\ m_buffer' = StoreByte(m_buffer, workers[t].tmp)
    /\ workers' = [workers EXCEPT
                     ![t].i = workers[t].i + 1,
                     ![t].tmp = <<>>,
                     ![t].pc = IF workers[t].i + 1 < workers[t].end
                               THEN "compute" ELSE "done"]
    /\ UNCHANGED <<pc, m_data, config, iterations, iter, gen, call, ret, probe,
                   monitor, cancel_requested, suite, tally, detection, tasks>>

\* updateBuffer() returns once every future is ready; process() swaps the
\* buffers and increments iter
JoinAndSwap ==
    /\ pc = "workers"
    /\ AllDone(workers)
    /\ m_data' = m_buffer
    /\ m_buffer' = m_data
    /\ iter' = iter + 1
    /\ pc' = "loop"
    /\ UNCHANGED <<config, iterations, workers, gen, call, ret, probe, monitor,
                   cancel_requested, suite, tally, detection, tasks>>

WorkerMem(t) ==
    SUBSET UnallocatedReads(Kernel(m_data, m_rule, m_neighborhood, m_width, m_height),
                        workers[t].i, workers[t].i + 1)

Next ==
    \/ /\ pc = "new"
       /\ \E data \in AllBitSeqs, rule \in Rules, neighborhood \in Neighborhoods,
             width \in Widths, hc \in HardwareConcurrency :
               Construct(data, rule, neighborhood, width, hc)
    \/ /\ pc = "idle"
       /\ \/ \E rule \in Rules : setRule(rule)
          \/ \E f \in CustomFuncs : setCustomRule(f)
          \/ \E neighborhood \in Neighborhoods : setNeighborhood(neighborhood)
          \/ \E k \in 0..MaxThreads, hc \in HardwareConcurrency : setNumThreads(k, hc)
          \/ \E n \in 0..MaxIter : process(n)
    \/ LoopStep
    \/ \E t \in DOMAIN workers : \E mem \in WorkerMem(t) : WorkerCompute(t, mem)
    \/ \E t \in DOMAIN workers : WorkerStore(t)
    \/ JoinAndSwap

Spec == Init /\ [][Next]_vars

\* ------------------------------ a run with its monitor, faults and caller
\* The task of worker t ends with an exception: std::async stores it in the
\* future's shared state
WorkerThrow(t) ==
    /\ t \in DOMAIN workers
    /\ workers[t].pc = "compute"
    /\ workers' = [workers EXCEPT ![t].pc = "failed"]
    /\ UNCHANGED <<pc, m_data, m_buffer, config, iterations, iter, gen, call, ret,
                   probe, monitor, cancel_requested, suite, tally, detection, tasks>>

\* monitoringThread(): a pass of the loop that finds tasks to display takes
\* m_tasks_mutex and writes to *m_console_stream while holding it
MonitorRender ==
    /\ monitor_pc = "wait"
    /\ m_tasks_mutex = "free"
    /\ events > 0
    /\ monitor_pc' = "render"
    /\ m_tasks_mutex' = "monitor"
    /\ UNCHANGED <<pc, m_data, m_buffer, config, running, call, ret, probe, events,
                   cancel_requested, suite, tally, detection, tasks>>

\* monitoringThread(): the stream has taken the output; the lock_guard is
\* released and the thread sleeps in m_cv.wait_for
MonitorRelease ==
    /\ monitor_pc = "render"
    /\ monitor_pc' = "wait"
    /\ m_tasks_mutex' = "free"
    /\ UNCHANGED <<pc, m_data, m_buffer, config, running, call, ret, probe, events,
                   cancel_requested, suite, tally, detection, tasks>>

\* The caller of a running process() asks for cancellation.  process() takes
\* no cancel token: nothing in the processor reads the request.
RequestCancel ==
    /\ pc \in {"loop", "workers"}
    /\ ~cancel_requested
    /\ cancel_requested' = TRUE
    /\ UNCHANGED <<pc, m_data, m_buffer, config, running, call, ret, probe, monitor, suite, tally, detection, tasks>>

\* A 1-D Rule30 processor on MaxLen bits with 1..MaxThreads threads
InitRun ==
    /\ pc = "idle"
    /\ m_data \in BitSeqs(MaxLen)
    /\ m_buffer = Zeros(Len(m_data))
    /\ m_rule = Rule30
    /\ m_custom_rule_func = "empty"
    /\ m_neighborhood = "OneDimensional"
    /\ width_arg = 0
    /\ m_width = Geometry(Len(m_data), width_arg).width
    /\ m_height = Geometry(Len(m_data), width_arg).height
    /\ m_num_threads \in 1..MaxThreads
    /\ iterations = 0
    /\ iter = 0
    /\ workers = <<>>
    /\ gen = <<>>
    /\ call = NoCall
    /\ ret = NoRet
    /\ probe = NoProbe
    /\ events = 0
    /\ m_tasks_mutex = "free"
    /\ monitor_pc = "none"
    /\ cancel_requested = FALSE
    /\ SuiteNew
    /\ TallyNew
    /\ DetectionNew
    /\ TasksNew

NextRun ==
    \/ \E n \in 1..MaxIter : process(n)
    \/ LoopStep
    \/ \E t \in DOMAIN workers : \E mem \in WorkerMem(t) : WorkerCompute(t, mem)
    \/ \E t \in DOMAIN workers : WorkerStore(t)
    \/ \E t \in DOMAIN workers : WorkerThrow(t)
    \/ JoinAndSwap
    \/ MonitorRender
    \/ MonitorRelease
    \/ RequestCancel

SpecRun == InitRun /\ [][NextRun]_vars

\* ----------------------------------------- direct application of a kernel
\* The processor's own loop, workerThread(start_idx, end_idx), run by one
\* thread (it has no caller in the repository).
workerThread(d, buf, rule, f, neighborhood, w, h, start, end, mem) ==
    [k \in 1..Len(buf) |->
        IF start <= k - 1 /\ k - 1 < end
        THEN CASE neighborhood = "OneDimensional" -> apply1DRule(d, rule, f, k - 1, mem)
               [] neighborhood = "VonNeumann" ->
                      applyVonNeumannRule(d, rule, f, w, h, k - 1, mem)
               [] neighborhood = "Moore" -> applyMooreRule(d, rule, f, w, h, k - 1, mem)
        ELSE buf[k]]

\* The 8-bit field 10000000 of scenario S3
S3Field == <<TRUE, FALSE, FALSE, FALSE, FALSE, FALSE, FALSE, FALSE>>
KernelInputs == UNION {BitSeqs(n) : n \in 1..KernelMaxLen} \cup {S3Field}
KernelWidths == 0..MaxWidth

\* A processor as its constructor (and setCustomRule) leaves it
InitKernel ==
    /\ pc = "idle"
    /\ m_data \in KernelInputs
    /\ m_buffer = Zeros(Len(m_data))
    /\ m_rule \in Rules
    /\ m_custom_rule_func \in (IF m_rule = Custom THEN CustomFuncs ELSE {"empty"})
    /\ m_neighborhood \in Neighborhoods
    /\ width_arg \in KernelWidths
    /\ m_width = Geometry(Len(m_data), width_arg).width
    /\ m_height = Geometry(Len(m_data), width_arg).height
    /\ m_num_threads = 1
    /\ iterations = 0
    /\ iter = 0
    /\ workers = <<>>
    /\ gen = <<>>
    /\ call = NoCall
    /\ ret = NoRet
    /\ probe = NoProbe
    /\ events = 0
    /\ m_tasks_mutex = "free"
    /\ monitor_pc = "none"
    /\ cancel_requested = FALSE
    /\ SuiteNew
    /\ TallyNew
    /\ DetectionNew
    /\ TasksNew

\* One thread runs SIMDDispatcher::execute on the kernel for [start, end):
\* the switch calls the specialisation path
KernelApply(path, start, end, mem) ==
    /\ pc = "idle"
    /\ LET kern == Kernel(m_data, m_rule, m_neighborhood, m_width, m_height)
       IN  m_buffer' = VectorizeAs(path, kern, m_buffer, start, end, mem)
    /\ probe' = [applied |-> TRUE, start |-> start, end |-> end, mem |-> mem,
                 path |-> path]
    /\ pc' = "applied"
    /\ UNCHANGED <<m_data, config, running, call, ret, monitor, cancel_requested, suite, tally, detection, tasks>>

\* One thread runs workerThread(start, end)
WorkerThreadApply(start, end, mem) ==
    /\ pc = "idle"
    /\ m_buffer' = workerThread(m_data, m_buffer, m_rule, m_custom_rule_func,
                                m_neighborhood, m_width, m_height, start, end, mem)
    /\ probe' = [applied |-> TRUE, start |-> start, end |-> end, mem |-> mem,
                 path |-> "workerThread"]
    /\ pc' = "applied"
    /\ UNCHANGED <<m_data, config, running, call, ret, monitor, cancel_requested, suite, tally, detection, tasks>>

KernelMem(start, end) ==
    SUBSET UnallocatedReads(Kernel(m_data, m_rule, m_neighborhood, m_width, m_height),
                        start, end)

NextKernel ==
    /\ pc = "idle"
    /\ \E start \in 0..Len(m_data) : \E end \in start..Len(m_data) :
         \E mem \in KernelMem(start, end) :
            \/ \E path \in DispatchPaths : KernelApply(path, start, end, mem)
            \/ WorkerThreadApply(start, end, mem)

SpecKernel == InitKernel /\ [][NextKernel]_vars

\* ------------------------------------------- the chunks of one iteration
MaxChunkLen == 5
MaxChunkThreads == 3

\* A 1-D Rule30 processor constructed with width MaxWidth on 0..MaxChunkLen
\* zero bits, its thread count set to 1..MaxChunkThreads
InitChunks ==
    /\ pc = "idle"
    /\ m_data \in {Zeros(n) : n \in 0..MaxChunkLen}
    /\ m_buffer = Zeros(Len(m_data))
    /\ m_rule = Rule30
    /\ m_custom_rule_func = "empty"
    /\ m_neighborhood = "OneDimensional"
    /\ width_arg = MaxWidth
    /\ m_width = Geometry(Len(m_data), width_arg).width
    /\ m_height = Geometry(Len(m_data), width_arg).height
    /\ m_num_threads \in 1..MaxChunkThreads
    /\ iterations = 0
    /\ iter = 0
    /\ workers = <<>>
    /\ gen = <<>>
    /\ call = NoCall
    /\ ret = NoRet
    /\ probe = NoProbe
    /\ events = 0
    /\ m_tasks_mutex = "free"
    /\ monitor_pc = "none"
    /\ cancel_requested = FALSE
    /\ SuiteNew
    /\ TallyNew
    /\ DetectionNew
    /\ TasksNew

NextChunks ==
    \/ process(1)
    \/ LoopStep
    \/ \E t \in DOMAIN workers : \E mem \in WorkerMem(t) : WorkerCompute(t, mem)
    \/ \E t \in DOMAIN workers : WorkerStore(t)
    \/ JoinAndSwap

SpecChunks == InitChunks /\ [][NextChunks]_vars

\* ------------------------------------------ longest run of ones: the tally
\* LongestRunTest::M_8, M_128, M_10000: the upper bounds of the categories
M_8 == <<1, 2, 3>>
M_128 == <<4, 5, 6, 7, 8>>
M_10000 == <<10, 11, 12, 13, 14, 15>>

\* The block length M, the category count K and the table chosen for n bits
LongestRunParams(n) ==
    IF n < 6272 THEN [M |-> 8, K |-> 3, v_i |-> M_8]
    ELSE IF n < 750000 THEN [M |-> 128, K |-> 5, v_i |-> M_128]
    ELSE [M |-> 10000, K |-> 6, v_i |-> M_10000]

\* The scan of one block from its bit j on: current_run and longest_run
RECURSIVE ScanRun(_, _, _, _, _, _)
ScanRun(data, block_start, M, j, current_run, longest_run) ==
    IF j = M THEN longest_run
    ELSE IF data[block_start + j + 1]
    THEN ScanRun(data, block_start, M, j + 1, current_run + 1,
                 IF current_run + 1 > longest_run THEN current_run + 1 ELSE longest_run)
    ELSE ScanRun(data, block_start, M, j + 1, 0, longest_run)

longest_run_of(data, block_start, M) == ScanRun(data, block_start, M, 0, 0, 0)

\* size_t index = 0; for (j < K) if (longest_run <= (*v_i)[j]) { index = j; break; }
BinIndex(longest_run, v_i, K) ==
    LET hits == {j \in 0..(K - 1) : longest_run <= v_i[j + 1]}
    IN  IF hits = {} THEN 0 ELSE CHOOSE j \in hits : \A h \in hits : j <= h

\* if (index < K) frequencies[index]++; else frequencies[K]++;
Tallied(freq, index, K) ==
    LET slot == IF index < K THEN index ELSE K
    IN  [freq EXCEPT ![slot + 1] = freq[slot + 1] + 1]

\* 8-bit blocks whose longest runs of ones are 0, 1, 2, 3, 4 and 8
Block(ones_from, ones_to) == [j \in 1..8 |-> ones_from <= j /\ j <= ones_to]
TallyBlocks == {Block(1, 0), Block(2, 2), Block(2, 3), Block(2, 4), Block(2, 5), Block(1, 8)}

\* MinTallyBlocks blocks: two of the blocks above, then zeros
MinTallyBlocks == 16
TallyInputs ==
    {b1 \o b2 \o Zeros(8 * (MinTallyBlocks - 2)) : b1 \in TallyBlocks, b2 \in TallyBlocks}

\* LongestRunTest::execute past its length check: frequencies(K + 1, 0)
InitTally == Init

TallyStart(data) ==
    /\ owner_pc = "none"
    /\ suite_pc = "idle"
    /\ frequencies = <<>>
    /\ Len(data) >= 128
    /\ suite_data' = data
    /\ suite_pc' = "tally"
    /\ frequencies' = [c \in 1..(LongestRunParams(Len(data)).K + 1) |-> 0]
    /\ block_index' = 0
    /\ UNCHANGED <<m_tests, m_alpha, results, suite_call, raised, processor,
                   detection, tasks>>

\* One turn of the loop over the blocks
TallyBlock ==
    /\ suite_pc = "tally"
    /\ LET par == LongestRunParams(Len(suite_data))
           num_blocks == Len(suite_data) \div par.M
       IN  /\ block_index < num_blocks
           /\ LET longest_run == longest_run_of(suite_data, block_index * par.M, par.M)
                  index == BinIndex(longest_run, par.v_i, par.K)
              IN  frequencies' = Tallied(frequencies, index, par.K)
           /\ block_index' = block_index + 1
    /\ UNCHANGED <<suite, processor, detection, tasks>>

NextTally ==
    \/ \E data \in TallyInputs : TallyStart(data)
    \/ TallyBlock

SpecTally == InitTally /\ [][NextTally]_vars

\* ------------------------------------------- CPUFeatures::detect, threaded
MaxDetectThreads == 2
MaxDetectCalls == 2

\* A thread that calls detect(): where it stands, the object it has
\* constructed, the calls it has made and the instances they returned
Detector == [pc |-> "idle", object |-> 0, calls |-> 0, got |-> {}]

\* The chunk workers of an iteration, each about to call detect() through
\* SIMDDispatcher::execute and detectBestStrategy
InitDetect ==
    /\ pc = "new"
    /\ m_data = <<>>
    /\ m_buffer = <<>>
    /\ m_rule = Rule30
    /\ m_custom_rule_func = "empty"
    /\ m_neighborhood = "Moore"
    /\ m_width = 0
    /\ m_height = 0
    /\ m_num_threads = 0
    /\ width_arg = 0
    /\ iterations = 0
    /\ iter = 0
    /\ workers = <<>>
    /\ gen = <<>>
    /\ call = NoCall
    /\ ret = NoRet
    /\ probe = NoProbe
    /\ events = 0
    /\ m_tasks_mutex = "free"
    /\ monitor_pc = "none"
    /\ cancel_requested = FALSE
    /\ SuiteNew
    /\ TallyNew
    /\ s_instance = 0
    /\ created = 0
    /\ detect_pc = [t \in 1..MaxDetectThreads |-> Detector]
    /\ TasksNew

\* detectBestStrategy(): auto features = CPUFeatures::detect()
DetectEnter(t) ==
    /\ detect_pc[t].pc = "idle"
    /\ detect_pc[t].calls < MaxDetectCalls
    /\ detect_pc' = [detect_pc EXCEPT ![t].pc = "check"]
    /\ UNCHANGED <<s_instance, created, processor, suite, tally, tasks>>

\* if (!s_instance)
DetectCheck(t) ==
    /\ detect_pc[t].pc = "check"
    /\ detect_pc' = [detect_pc EXCEPT
                       ![t].pc = IF s_instance = 0 THEN "construct" ELSE "return"]
    /\ UNCHANGED <<s_instance, created, processor, suite, tally, tasks>>

\* std::shared_ptr<CPUFeatures>(new CPUFeatures())
DetectConstruct(t) ==
    /\ detect_pc[t].pc = "construct"
    /\ created' = created + 1
    /\ detect_pc' = [detect_pc EXCEPT ![t].pc = "assign", ![t].object = created + 1]
    /\ UNCHANGED <<s_instance, processor, suite, tally, tasks>>

\* s_instance = ...
DetectAssign(t) ==
    /\ detect_pc[t].pc = "assign"
    /\ s_instance' = detect_pc[t].object
    /\ detect_pc' = [detect_pc EXCEPT ![t].pc = "return"]
    /\ UNCHANGED <<created, processor, suite, tally, tasks>>

\* return s_instance
DetectReturn(t) ==
    /\ detect_pc[t].pc = "return"
    /\ detect_pc' = [detect_pc EXCEPT
                       ![t].pc = "idle",
                       ![t].calls = detect_pc[t].calls + 1,
                       ![t].got = detect_pc[t].got \cup {s_instance}]
    /\ UNCHANGED <<s_instance, created, processor, suite, tally, tasks>>

NextDetect ==
    \/ \E t \in DOMAIN detect_pc : DetectEnter(t)
    \/ \E t \in DOMAIN detect_pc : DetectCheck(t)
    \/ \E t \in DOMAIN detect_pc : DetectConstruct(t)
    \/ \E t \in DOMAIN detect_pc : DetectAssign(t)
    \/ \E t \in DOMAIN detect_pc : DetectReturn(t)

SpecDetect == InitDetect /\ [][NextDetect]_vars

\* ========================================== ProgressMonitor, its own thread
\* One ProgressMonitor, the thread that owns it and its monitoring thread.
\* The owner calls the task functions in any order, then destroys the
\* monitor.  m_pause_monitoring and m_log_file keep their defaults (not
\* paused, no log file).
MaxItems == 1
TaskNames == {"CA Processing", "Entropy"}

\* a < b on doubles: every comparison with a NaN is false
Lt(a, b) ==
    /\ a[1] # "nan" /\ b[1] # "nan"
    /\ \/ a[1] = "num" /\ b[1] = "inf"
       \/ a[1] = "num" /\ b[1] = "num" /\ a[2] < b[2]

\* std::min(a, b) is (b < a) ? b : a and std::max(a, b) is (a < b) ? b : a
std_min(a, b) == IF Lt(b, a) THEN b ELSE a
std_max(a, b) == IF Lt(a, b) THEN b ELSE a

\* struct TaskProgress with its default member initialisers
TaskProgress ==
    [task_name |-> "", percent_complete |-> Dbl(0), processed_items |-> 0,
     total_items |-> 0, completed |-> FALSE]

\* TaskProgress& task = m_tasks[task_name]: the entry, default-constructed
\* when the map has none
Entry(task_name) ==
    IF task_name \in DOMAIN m_tasks THEN m_tasks[task_name] ELSE TaskProgress

\* the map with the entry of task_name replaced by task
Stored(task_name, task) ==
    [k \in DOMAIN m_tasks \cup {task_name} |->
        IF k = task_name THEN task ELSE m_tasks[k]]

\* static_cast<double>(processed_items) / total_items, in thousandths
Fraction(processed_items, total_items) ==
    Dbl((1000 * processed_items) \div total_items)

\* m_cv.notify_one() / notify_all(): a thread that waits on m_cv is woken,
\* a notification that finds no waiter is lost
Notified == IF monitor_pc = "waiting" THEN "signalled" ELSE m_cv

\* everything but the monitor's own state
beside_tasks == <<pc, m_data, m_buffer, config, running, call, ret, probe, events,
                  cancel_requested, suite, tally, detection>>

\* ProgressMonitor(): the constructor has started monitoringThread()
InitMonitor ==
    /\ pc = "new"
    /\ m_data = <<>>
    /\ m_buffer = <<>>
    /\ m_rule = Rule30
    /\ m_custom_rule_func = "empty"
    /\ m_neighborhood = "Moore"
    /\ m_width = 0
    /\ m_height = 0
    /\ m_num_threads = 0
    /\ width_arg = 0
    /\ iterations = 0
    /\ iter = 0
    /\ workers = <<>>
    /\ gen = <<>>
    /\ call = NoCall
    /\ ret = NoRet
    /\ probe = NoProbe
    /\ events = 0
    /\ m_tasks_mutex = "free"
    /\ monitor_pc = "test"
    /\ cancel_requested = FALSE
    /\ SuiteNew
    /\ TallyNew
    /\ DetectionNew
    /\ m_tasks = <<>>
    /\ m_stop_monitoring = FALSE
    /\ m_cv = "quiet"
    /\ owner_pc = "using"

\* update_progress(task_name, processed_items, total_items)
update_progress(task_name, processed_items, total_items) ==
    /\ owner_pc = "using"
    /\ m_tasks_mutex = "free"
    /\ LET task == Entry(task_name)
           named == [task EXCEPT !.task_name = task_name,
                                 !.processed_items = processed_items,
                                 !.total_items = total_items,
                                 !.percent_complete =
                                     IF total_items > 0
                                     THEN Fraction(processed_items, total_items)
                                     ELSE Dbl(0)]
       IN  m_tasks' = Stored(task_name,
                 IF processed_items >= total_items
                 THEN [named EXCEPT !.completed = TRUE,
                                    !.percent_complete = Dbl(1000)]
                 ELSE named)
    /\ m_cv' = Notified
    /\ UNCHANGED <<m_stop_monitoring, owner_pc, m_tasks_mutex, monitor_pc, beside_tasks>>

\* complete_task(task_name)
complete_task(task_name) ==
    /\ owner_pc = "using"
    /\ m_tasks_mutex = "free"
    /\ m_tasks' =
           IF task_name \in DOMAIN m_tasks
           THEN Stored(task_name,
                    [m_tasks[task_name] EXCEPT
                        !.completed = TRUE,
                        !.percent_complete = Dbl(1000),
                        !.processed_items = m_tasks[task_name].total_items])
           ELSE m_tasks
    /\ m_cv' = Notified
    /\ UNCHANGED <<m_stop_monitoring, owner_pc, m_tasks_mutex, monitor_pc, beside_tasks>>

\* the percentages a caller passes
PercentageInputs == {Dbl(0 - 500), Dbl(0), Dbl(500), Dbl(1000), Dbl(1500), NaN}

\* update_progress_percentage(task_name, percentage)
update_progress_percentage(task_name, percentage) ==
    /\ owner_pc = "using"
    /\ m_tasks_mutex = "free"
    /\ LET task == Entry(task_name)
           clamped == std_max(Dbl(0), std_min(Dbl(1000), percentage))
           named == [task EXCEPT !.task_name = task_name,
                                 !.percent_complete = clamped]
       IN  m_tasks' = Stored(task_name,
                 IF Geq(clamped, Dbl(1000))
                 THEN [named EXCEPT !.completed = TRUE]
                 ELSE named)
    /\ m_cv' = Notified
    /\ UNCHANGED <<m_stop_monitoring, owner_pc, m_tasks_mutex, monitor_pc, beside_tasks>>

\* reset_task(task_name)
reset_task(task_name) ==
    /\ owner_pc = "using"
    /\ m_tasks_mutex = "free"
    /\ task_name \in DOMAIN m_tasks
    /\ m_tasks' = Stored(task_name,
                      [m_tasks[task_name] EXCEPT !.percent_complete = Dbl(0),
                                                 !.processed_items = 0,
                                                 !.completed = FALSE])
    /\ UNCHANGED <<m_stop_monitoring, m_cv, owner_pc, m_tasks_mutex, monitor_pc,
                   beside_tasks>>

\* monitoringThread(): while (!m_stop_monitoring)
MonitorLoopTest ==
    /\ monitor_pc = "test"
    /\ monitor_pc' = IF m_stop_monitoring THEN "exited" ELSE "lock"
    /\ UNCHANGED <<tasks, m_tasks_mutex, beside_tasks>>

\* monitoringThread(): std::lock_guard lock(m_tasks_mutex) of the rendering
\* block
MonitorLock ==
    /\ monitor_pc = "lock"
    /\ m_tasks_mutex = "free"
    /\ m_tasks_mutex' = "monitor"
    /\ monitor_pc' = "render"
    /\ UNCHANGED <<tasks, beside_tasks>>

\* monitoringThread(): the tasks are written out and the rendering block ends
MonitorUnlock ==
    /\ monitor_pc = "render"
    /\ m_tasks_mutex = "monitor"
    /\ m_tasks_mutex' = "free"
    /\ monitor_pc' = "relock"
    /\ UNCHANGED <<tasks, beside_tasks>>

\* monitoringThread(): std::unique_lock lock(m_tasks_mutex) and
\* m_cv.wait_for(lock, m_update_interval_ms): the wait releases the mutex
MonitorWaitFor ==
    /\ monitor_pc = "relock"
    /\ m_tasks_mutex = "free"
    /\ monitor_pc' = "waiting"
    /\ m_cv' = "quiet"
    /\ UNCHANGED <<m_tasks, m_stop_monitoring, owner_pc, m_tasks_mutex, beside_tasks>>

\* wait_for returns on a notification and, at the latest, when the interval
\* has passed
WakeCondition(cv) == cv \in {"signalled", "quiet"}

\* monitoringThread(): wait_for returns holding the mutex, the unique_lock
\* goes out of scope and the loop starts over
MonitorWakeUp ==
    /\ monitor_pc = "waiting"
    /\ WakeCondition(m_cv)
    /\ m_tasks_mutex = "free"
    /\ monitor_pc' = "test"
    /\ m_cv' = "quiet"
    /\ UNCHANGED <<m_tasks, m_stop_monitoring, owner_pc, m_tasks_mutex, beside_tasks>>

MonitoringThread ==
    MonitorLoopTest \/ MonitorLock \/ MonitorUnlock \/ MonitorWaitFor \/ MonitorWakeUp

\* ~ProgressMonitor(): m_stop_monitoring = true
DestructorStop ==
    /\ owner_pc = "using"
    /\ m_stop_monitoring' = TRUE
    /\ owner_pc' = "stopping"
    /\ UNCHANGED <<m_tasks, m_cv, m_tasks_mutex, monitor_pc, beside_tasks>>

\* ~ProgressMonitor(): m_cv.notify_all()
DestructorNotify ==
    /\ owner_pc = "stopping"
    /\ m_cv' = Notified
    /\ owner_pc' = "joining"
    /\ UNCHANGED <<m_tasks, m_stop_monitoring, m_tasks_mutex, monitor_pc, beside_tasks>>

\* ~ProgressMonitor(): m_monitor_thread.join() returns once the thread has
\* left monitoringThread()
DestructorJoin ==
    /\ owner_pc = "joining"
    /\ monitor_pc = "exited"
    /\ owner_pc' = "destroyed"
    /\ UNCHANGED <<m_tasks, m_stop_monitoring, m_cv, m_tasks_mutex, monitor_pc,
                   beside_tasks>>

NextMonitor ==
    \/ \E task_name \in TaskNames : \E processed_items, total_items \in 0..MaxItems :
           update_progress(task_name, processed_items, total_items)
    \/ \E task_name \in TaskNames : \E percentage \in PercentageInputs :
           update_progress_percentage(task_name, percentage)
    \/ \E task_name \in TaskNames : complete_task(task_name)
    \/ \E task_name \in TaskNames : reset_task(task_name)
    \/ MonitorLoopTest
    \/ MonitorLock
    \/ MonitorUnlock
    \/ MonitorWaitFor
    \/ MonitorWakeUp
    \/ DestructorStop
    \/ DestructorNotify
    \/ DestructorJoin

SpecMonitor == InitMonitor /\ [][NextMonitor]_vars

\* The scheduler runs every thread that can take a step: the monitoring
\* thread, and the owner inside the destructor.
SpecMonitorFair ==
    /\ SpecMonitor
    /\ WF_vars(MonitoringThread)
    /\ WF_vars(DestructorNotify \/ DestructorJoin)

\* ============================================================== test suite
MaxTests == 2

\* The check of StatisticalTest::setAlpha and TestSuite::setAlpha:
\* alpha <= 0.0 || alpha >= 1.0
InvalidAlpha(alpha) == Leq(alpha, Dbl(0)) \/ Geq(alpha, Dbl(1000))

\* StatisticalTest::setAlpha on a test whose check passes
WithAlpha(test, alpha) == [test EXCEPT !.m_alpha = alpha]

\* Inserting at the head instead of the tail
push_back_AtFront(vector, x) == <<x>> \o vector

\* std::vector::push_back
push_back(vector, x) == Append(vector, x)

\* The tests a caller builds: the defaults, and block sizes 0 and 2
TestObjects ==
    { Test("Frequency", 0, 0),
      Test("BlockFrequency", 128, 0),
      Test("BlockFrequency", 2, 0),
      Test("BlockFrequency", 0, 0),
      Test("Runs", 0, 0),
      Test("LongestRun", 0, 0),
      Test("DFT", 0, 0),
      Test("NonOverlappingTemplate", 8, 9),
      Test("OverlappingTemplate", 10, 9) }

\* The significance levels a caller passes to setAlpha: NaN, 0, 0.005, 1
AlphaInputs == {NaN, Dbl(0), Dbl(5), Dbl(1000)}

\* The inputs of a run: 99 zeros, alternating bits of 100 and 1000 bits, the
\* chirp of 1000 bits
SuiteInputs == {Zeros(99), Alternating(100), Alternating(1000), ChirpInput}

SuiteCallable == suite_pc \in {"idle", "returned"}

\* The vector runTests() returned is the caller's, who drops it with its data
\* before calling the suite again
CallOver ==
    /\ suite_pc' = "idle"
    /\ suite_data' = <<>>
    /\ results' = <<>>
    /\ suite_call' = NoSuiteCall

\* TestSuite::addTest
addTest(test) ==
    /\ SuiteCallable
    /\ Len(m_tests) < MaxTests
    /\ IF InvalidAlpha(m_alpha)
       THEN raised' = TRUE /\ UNCHANGED m_tests
       ELSE /\ m_tests' = push_back(m_tests, WithAlpha(test, m_alpha))
            /\ raised' = FALSE
    /\ CallOver
    /\ UNCHANGED <<m_alpha, processor, tally, detection, tasks>>

\* TestSuite::setAlpha
setAlpha(alpha) ==
    /\ SuiteCallable
    /\ IF InvalidAlpha(alpha)
       THEN raised' = TRUE /\ UNCHANGED <<m_alpha, m_tests>>
       ELSE /\ m_alpha' = alpha
            /\ m_tests' = [i \in DOMAIN m_tests |-> WithAlpha(m_tests[i], alpha)]
            /\ raised' = FALSE
    /\ CallOver
    /\ UNCHANGED <<processor, tally, detection, tasks>>

\* TestSuite::clear
clear ==
    /\ SuiteCallable
    /\ m_tests # <<>>
    /\ m_tests' = <<>>
    /\ raised' = FALSE
    /\ CallOver
    /\ UNCHANGED <<m_alpha, processor, tally, detection, tasks>>

\* TestSuite::runTests(const BitSequence& data): entry
runTests(data) ==
    /\ SuiteCallable
    /\ suite_pc' = "running"
    /\ suite_data' = data
    /\ results' = <<>>
    /\ suite_call' = [tests |-> m_tests, data |-> data]
    /\ raised' = FALSE
    /\ UNCHANGED <<m_tests, m_alpha, processor, tally, detection, tasks>>

\* runTests: one turn of the loop, results.push_back(test->execute(data))
ExecuteTest ==
    /\ suite_pc = "running"
    /\ Len(results) < Len(m_tests)
    /\ \E o \in execute(m_tests[Len(results) + 1], suite_data) :
          IF o.kind = "crash"
          THEN suite_pc' = "crashed" /\ UNCHANGED results
          ELSE results' = push_back(results, o.result) /\ UNCHANGED suite_pc
    /\ UNCHANGED <<m_tests, m_alpha, suite_data, suite_call, raised, processor, tally, detection, tasks>>

\* runTests: return results
ReturnResults ==
    /\ suite_pc = "running"
    /\ Len(results) = Len(m_tests)
    /\ suite_pc' = "returned"
    /\ UNCHANGED <<m_tests, m_alpha, suite_data, results, suite_call, raised,
                   processor, tally, detection, tasks>>

\* A suite as constructed; the processor is not used
InitSuite == Init

NextSuite ==
    \/ \E test \in TestObjects : addTest(test)
    \/ \E alpha \in AlphaInputs : setAlpha(alpha)
    \/ clear
    \/ \E data \in SuiteInputs : runTests(data)
    \/ ExecuteTest
    \/ ReturnResults

SpecSuite == InitSuite /\ [][NextSuite]_vars

\* ================================================================ properties
\* The specification's cellular automaton, stated on mathematical integers.
Bit(b) == IF b THEN 1 ELSE 0
Xor(a, b) == a # b
ModN(v, n) == ((v % n) + n) % n
CeilDiv(n, w) == (n + w - 1) \div w

\* The cells a direct application of a kernel has written
Written == {i \in 0..(Len(m_data) - 1) : probe.start <= i /\ i < probe.end}

\* (cur[(i-1) mod n] << 2) | (cur[i] << 1) | cur[(i+1) mod n]
SpecPattern(cur, i) ==
    4 * Bit(cur[ModN(i - 1, Len(cur)) + 1]) + 2 * Bit(cur[i + 1])
    + Bit(cur[ModN(i + 1, Len(cur)) + 1])

\* C4: one OneDimensional step with rule 30, 82, 110 or 150 on n >= 1 bits
\* sets next[i] to bit number p of the rule code, p being the pattern of
\* cur[(i-1) mod n], cur[i], cur[(i+1) mod n]; and one Rule30 step on 10000000
\* yields 11000001.
C4_OneDimensionalRuleTable ==
    (probe.applied /\ m_neighborhood = "OneDimensional" /\ m_rule \in StandardRules)
    => /\ \A i \in Written :
            m_buffer[i + 1] = ((m_rule \div (2 ^ SpecPattern(m_data, i))) % 2 = 1)
       /\ (m_rule = Rule30 /\ m_data = S3Field /\ probe.start = 0 /\ probe.end = 8)
            => m_buffer = <<TRUE, TRUE, FALSE, FALSE, FALSE, FALSE, FALSE, TRUE>>

\* C4 happens: scenario S3 has been run through the dispatcher
C4_Witness_S3 ==
    /\ probe.applied /\ probe.path = "u64"
    /\ m_neighborhood = "OneDimensional" /\ m_rule = Rule30
    /\ m_data = S3Field /\ probe.start = 0 /\ probe.end = 8
    /\ m_buffer = <<TRUE, TRUE, FALSE, FALSE, FALSE, FALSE, FALSE, TRUE>>

\* C5 as stated: one OneDimensional Rule150 step yields
\* next[i] = F[(i-1) mod n] XOR F[(i+1) mod n] for every cell i.
C5_Rule150TwoNeighbourXor ==
    (probe.applied /\ m_neighborhood = "OneDimensional" /\ m_rule = Rule150)
    => \A i \in Written :
          m_buffer[i + 1] = Xor(m_data[ModN(i - 1, Len(m_data)) + 1],
                                m_data[ModN(i + 1, Len(m_data)) + 1])

\* C5 amended: one OneDimensional Rule150 step yields
\* next[i] = F[(i-1) mod n] XOR F[i] XOR F[(i+1) mod n] for every cell i.
C5_Rule150ThreeCellXor ==
    (probe.applied /\ m_neighborhood = "OneDimensional" /\ m_rule = Rule150)
    => \A i \in Written :
          m_buffer[i + 1] = Xor(Xor(m_data[ModN(i - 1, Len(m_data)) + 1],
                                    m_data[i + 1]),
                                m_data[ModN(i + 1, Len(m_data)) + 1])

\* C5 happens: a whole Rule150 step on at least 3 bits, with a live cell whose
\* two neighbours are equal (where the two laws differ)
C5_Witness_LiveCentre ==
    /\ probe.applied /\ m_neighborhood = "OneDimensional" /\ m_rule = Rule150
    /\ Len(m_data) >= 3 /\ probe.start = 0 /\ probe.end = Len(m_data)
    /\ \E i \in Written :
          /\ m_data[i + 1]
          /\ m_data[ModN(i - 1, Len(m_data)) + 1] = m_data[ModN(i + 1, Len(m_data)) + 1]
          /\ m_buffer[i + 1]

\* The grid the specification gives n bits and a width argument
SpecWidth(n, width) == IF width = 0 THEN Sqrt(n) ELSE width
SpecHeight(n, width) == CeilDiv(n, SpecWidth(n, width))

\* The offsets of the 2-D neighbourhoods: N, E, S, W and the 8 surrounding cells
SpecOffsets(neighborhood) ==
    IF neighborhood = "VonNeumann"
    THEN {<<0, -1>>, <<1, 0>>, <<0, 1>>, <<-1, 0>>}
    ELSE {p \in (-1..1) \X (-1..1) : p # <<0, 0>>}

\* k: the live in-grid neighbours of cell i (no wrap; a neighbour outside the
\* w x h grid, or past the n bits, counts 0)
SpecLiving(cur, neighborhood, w, h, i) ==
    Cardinality({p \in SpecOffsets(neighborhood) :
        LET x == (i % w) + p[1]
            y == (i \div w) + p[2]
        IN  /\ 0 <= x /\ x < w /\ 0 <= y /\ y < h
            /\ y * w + x < Len(cur)
            /\ cur[y * w + x + 1]})

\* The specification's 2-D predicates of a and k
SpecPredicate(neighborhood, rule, a, k) ==
    IF neighborhood = "VonNeumann"
    THEN CASE rule = Rule30 -> (a /\ k < 2) \/ (~a /\ k >= 2)
           [] rule = Rule82 -> (a /\ k < 3) \/ (~a /\ k = 2)
           [] rule = Rule110 -> (a /\ k # 4) \/ (~a /\ k >= 1)
           [] rule = Rule150 -> k % 2 = 1
    ELSE CASE rule = Rule30 -> k = 3 \/ (a /\ k = 2)
           [] rule = Rule82 -> (~a /\ k = 3) \/ (a /\ k \in {2, 3})
           [] rule = Rule110 -> (a /\ k < 4) \/ (~a /\ k \in {3, 6})
           [] rule = Rule150 -> k % 2 = 1

\* C6: in the 2-D neighbourhoods the next state of every cell is the
\* specification's predicate of a (the cell) and k (its live in-grid
\* neighbours, out-of-grid neighbours counting 0), for rules 30, 82, 110, 150.
C6_TwoDimensionalPredicates ==
    (probe.applied /\ m_neighborhood \in {"VonNeumann", "Moore"}
        /\ m_rule \in StandardRules)
    => \A i \in Written :
          m_buffer[i + 1] =
              SpecPredicate(m_neighborhood, m_rule, m_data[i + 1],
                  SpecLiving(m_data, m_neighborhood,
                             SpecWidth(Len(m_data), width_arg),
                             SpecHeight(Len(m_data), width_arg), i))

\* C7: when the last grid row is partial (w * ceil(n/w) > n), a 2-D step reads
\* no bit index >= n and writes only indices in [0, n).
C7_NoAccessPastEnd ==
    (probe.applied /\ m_neighborhood \in {"VonNeumann", "Moore"}
        /\ m_width * m_height > Len(m_data))
    => /\ OutsideReads(Kernel(m_data, m_rule, m_neighborhood, m_width, m_height),
                       probe.start, probe.end) = {}
       /\ DOMAIN m_buffer = 1..Len(m_data)

\* C9: whatever tier the dispatcher selects, the tier's kernel leaves in the
\* destination exactly the bits the scalar kernel writes for the same data,
\* rule, neighbourhood and range [start, end).
C9_TierEquivalence ==
    (probe.applied /\ probe.path \in DispatchPaths)
    => m_buffer = Vectorize_u64(Kernel(m_data, m_rule, m_neighborhood, m_width,
                                       m_height),
                                Zeros(Len(m_data)), probe.start, probe.end, probe.mem)

\* C9 happens: the 256-bit tier has run on a range whose last cell became 1
C9_Witness_m256i ==
    /\ probe.applied /\ probe.path = "m256i"
    /\ probe.start < probe.end
    /\ m_buffer[probe.end]

\* The specification's single-step function under the processor's settings
SpecStep(cur) ==
    [k \in 1..Len(cur) |->
        IF m_rule = Custom THEN CustomEval(m_custom_rule_func, cur, k - 1)
        ELSE IF m_neighborhood = "OneDimensional"
        THEN (m_rule \div (2 ^ SpecPattern(cur, k - 1))) % 2 = 1
        ELSE SpecPredicate(m_neighborhood, m_rule, cur[k],
                 SpecLiving(cur, m_neighborhood, SpecWidth(Len(cur), width_arg),
                            SpecHeight(Len(cur), width_arg), k - 1))]

RECURSIVE SpecIterate(_, _)
SpecIterate(cur, k) == IF k = 0 THEN cur ELSE SpecIterate(SpecStep(cur), k - 1)

\* C1: process(N) returns the single-step function applied N times to the
\* input; for N = 0 it returns the input and modifies neither buffer.
C1_ProcessIteratesStep ==
    (ret.valid /\ (m_rule = Custom => m_custom_rule_func # "empty"))
    => /\ ret.value = SpecIterate(call.data, iterations)
       /\ iterations = 0 => (m_data = call.data /\ m_buffer = call.buffer)

\* What one worker alone leaves in the next buffer for the generation cur, and
\* what k such iterations can return
AloneStep(cur) ==
    LET kern == Kernel(cur, m_rule, m_neighborhood, m_width, m_height)
    IN  {Vectorize_u64(kern, Zeros(Len(cur)), 0, Len(cur), mem) :
            mem \in SUBSET UnallocatedReads(kern, 0, Len(cur))}

RECURSIVE AloneIterate(_, _)
AloneIterate(curs, k) ==
    IF k = 0 THEN curs ELSE AloneIterate(UNION {AloneStep(cur) : cur \in curs}, k - 1)

\* C2: for every thread count T >= 1 and every interleaving of the T chunk
\* workers, process() returns a bit sequence that one worker alone returns.
C2_ThreadCountIndependence ==
    ret.valid => ret.value \in AloneIterate({call.data}, iterations)

C8_CustomRuleApplied ==
    (pc = "loop" /\ iter >= 1 /\ m_rule = Custom /\ m_custom_rule_func # "empty")
    => m_data = [k \in 1..Len(m_buffer) |->
                    CustomEval(m_custom_rule_func, m_buffer, k - 1)]

\* C10: a processor constructed on n >= 1 bits with width argument w >= 0 has
\* width >= 1 (floor(sqrt(n)) for w = 0, else w), height = ceil(n / width) and
\* width * height >= n.
C10_GridGeometry ==
    (pc # "new" /\ Len(m_data) >= 1)
    => /\ m_width >= 1
       /\ m_width = SpecWidth(Len(m_data), width_arg)
       /\ m_height = CeilDiv(Len(m_data), m_width)
       /\ m_width * m_height >= Len(m_data)

\* C11: if a chunk worker ends with an exception, process() aborts: it does
\* not swap the buffers, starts no further iteration and returns no bit
\* sequence (the run stays at the barrier of the failed iteration).
C11_WorkerFailureAborts ==
    (\E t \in DOMAIN workers : workers[t].pc = "failed")
    => (pc = "workers" /\ ~ret.valid)

\* C12: once cancellation has been requested, the run starts no further
\* iteration at the next boundary between iterations.
C12_CancelStopsAtBoundary ==
    [][(cancel_requested /\ pc = "loop") => pc' # "workers"]_vars

\* C13: a call process(N) with N >= 1 makes at most N update_progress calls.
C13_OneEventPerIteration ==
    (call.active /\ iterations >= 1) => events <= iterations

\* C14: a thread calling update_progress never finds m_tasks_mutex held by
\* the monitoring thread while that thread writes to the console stream.
C14_UpdateNeverWaitsForSink ==
    ~(pc = "loop" /\ m_tasks_mutex = "monitor" /\ monitor_pc = "render")


\* ------------------------------------------------ statistical test results
HasError(r) == "error" \in DOMAIN r.additional_metrics

\* The two shapes of a result: computed, and refused
ComputedShape(r, alpha) == ~HasError(r) /\ (r.passed <=> Geq(r.p_value, alpha))
RefusedShape(r) ==
    /\ HasError(r)
    /\ r.additional_metrics["error"][1] = "num"
    /\ r.additional_metrics["error"][2] > 0
    /\ r.passed = FALSE
    /\ r.p_value = Dbl(0)

\* The minimum length each test asks of its input of n bits
SpecMinLengthMet(test, n) ==
    CASE test.kind = "Frequency" -> n >= 100
      [] test.kind = "BlockFrequency" ->
            n >= 100 /\ test.m_block_size >= 1 /\ n \div test.m_block_size >= 1
      [] test.kind = "Runs" -> n >= 100
      [] test.kind = "LongestRun" -> n >= 128
      [] test.kind = "DFT" -> n >= 1000
      [] test.kind = "NonOverlappingTemplate" -> n >= 100 * test.m_block_size
      [] test.kind = "OverlappingTemplate" -> n >= 100 * test.m_block_size

\* The precondition of a test: the minimum length and, for the runs test,
\* a proportion of ones within 2 / sqrt(n) of one half
SpecPrecondition(test, data) ==
    /\ SpecMinLengthMet(test, Len(data))
    /\ test.kind = "Runs" => ~PiUnsuitable(data)

\* C15: every result a test has returned is either computed (no "error"
\* metric, passed exactly when p_value >= alpha) or refused ("error" > 0,
\* passed false, p_value 0), and it is refused whenever the precondition of
\* the test fails on the input.
C15_ResultShape ==
    \A i \in DOMAIN results :
        LET r == results[i]
            test == m_tests[i]
        IN  /\ ComputedShape(r, test.m_alpha) \/ RefusedShape(r)
            /\ ~SpecPrecondition(test, suite_data) => RefusedShape(r)

\* A returned run holding a refused result and a computed one whose p-value
\* equals the significance level
C15_Witness_BothShapes ==
    /\ suite_pc = "returned"
    /\ \E i, j \in DOMAIN results :
          /\ RefusedShape(results[i])
          /\ ~SpecPrecondition(m_tests[i], suite_data)
          /\ ~HasError(results[j])
          /\ results[j].p_value = m_tests[j].m_alpha
          /\ results[j].passed

\* C16: a result of a test whose minimum length is not met carries the
\* metric "error" = 1, also for the block frequency test on 100 bits or more
\* that hold no complete block.
C16_MinLengthErrorIsOne ==
    \A i \in DOMAIN results :
        ~SpecMinLengthMet(m_tests[i], Len(suite_data))
            => /\ HasError(results[i])
               /\ results[i].additional_metrics["error"] = Dbl(1000)

\* C17: for every configuration of the tests and every input, runTests runs
\* to its return: no division by zero, no read outside the input.
C17_RunCompletes == suite_pc # "crashed"

\* C18: runTests returns one result per test, the i-th produced by the i-th
\* test added on the data passed, and leaves the data and the tests as they
\* were at the call.
C18_OneResultPerTestInOrder ==
    suite_pc = "returned" =>
        /\ Len(results) = Len(suite_call.tests)
        /\ \A i \in DOMAIN results :
              \E o \in execute(suite_call.tests[i], suite_call.data) :
                  o.kind = "result" /\ o.result = results[i]
        /\ m_tests = suite_call.tests
        /\ suite_data = suite_call.data

\* A returned run of two tests of different kinds
C18_Witness_TwoTests ==
    /\ suite_pc = "returned"
    /\ Len(results) = 2
    /\ m_tests[1].kind # m_tests[2].kind
    /\ results[1].test_name = getName(m_tests[1])
    /\ results[2].test_name = getName(m_tests[2])

\* C19: whatever was called on the suite, its alpha is a number strictly
\* between 0 and 1 and every test it holds has that alpha.
C19_AlphaInOpenUnitInterval ==
    /\ m_alpha[1] = "num" /\ 0 < m_alpha[2] /\ m_alpha[2] < 1000
    /\ \A i \in DOMAIN m_tests : m_tests[i].m_alpha = m_alpha

\* Every complete block of M bits holds exactly M / 2 ones
UniformBlocks(data, M) ==
    \A b \in 0..((Len(data) \div M) - 1) : 2 * BlockOnes(data, b * M, M) = M

\* C20: the block frequency test on an input whose every block holds M / 2
\* ones yields chi_squared = 0, p_value = 1.0 and passed = true.
C20_UniformBlocksPass ==
    \A i \in DOMAIN results :
        LET test == m_tests[i]
            M == test.m_block_size
        IN  ( /\ test.kind = "BlockFrequency"
              /\ M >= 1
              /\ SpecMinLengthMet(test, Len(suite_data))
              /\ UniformBlocks(suite_data, M) )
            => /\ ~HasError(results[i])
               /\ results[i].additional_metrics["chi_squared"] = Dbl(0)
               /\ results[i].p_value = Dbl(1000)
               /\ results[i].passed

\* ------------------------------------------- processor: inputs and frame
\* C21: an empty bit sequence is rejected by the constructor: no processor
\* is ever constructed on it, and none ends in the division by the automatic
\* width floor(sqrt(0)) = 0.
C21_EmptyInputRejected ==
    (pc \notin {"new", "rejected"}) => Len(m_data) >= 1

\* getData(): return m_data
getData == m_data

\* C22: from construction on, getData() returns the bit sequence the
\* processor was constructed with: no step of a constructed processor
\* changes what it returns.
C22_GetDataIsOriginal ==
    [][pc # "new" => getData' = getData]_vars

\* The workers whose index range holds cell k
Owners(k) ==
    {t \in DOMAIN workers :
        /\ ChunkStart(t - 1, Len(m_data), m_num_threads) <= k
        /\ k < workers[t].end}

C29_WorkerCountPositive ==
    pc \in {"idle", "loop", "workers", "done"} => m_num_threads >= 1

\* ---------------------------------------------------- longest run tally
\* The category of a longest run: the lowest one whose upper bound is at
\* least the run, the last one when the run exceeds every bound
SpecCategory(run, bounds, K) ==
    IF \E j \in 0..(K - 1) : run <= bounds[j + 1]
    THEN CHOOSE j \in 0..(K - 1) :
            /\ run <= bounds[j + 1]
            /\ \A h \in 0..(j - 1) : run > bounds[h + 1]
    ELSE K

\* C24: after any number of blocks, every block tallied so far has
\* incremented the counter of its category and no other: counter c holds
\* the number of those blocks whose longest run is of category c.
C24_TallyByCategory ==
    suite_pc = "tally" =>
        LET par == LongestRunParams(Len(suite_data))
        IN  \A c \in 0..par.K :
                frequencies[c + 1] =
                    Cardinality({b \in 0..(block_index - 1) :
                        SpecCategory(longest_run_of(suite_data, b * par.M, par.M),
                                     par.v_i, par.K) = c})

\* ------------------------------------------------------------------ DFT
\* The value of a finite double, in thousandths
Thousandths(x) == x[2]

\* C25: in every result of the DFT test, d is the signed difference of the
\* observed count N0 and the expected count N1 over a positive divisor: its
\* numerator is N0 - N1, negative when fewer moduli than expected are below
\* the threshold.
C25_SignedDifference ==
    \A i \in DOMAIN results :
        (m_tests[i].kind = "DFT" /\ ~HasError(results[i])) =>
            LET mt == results[i].additional_metrics
            IN  Thousandths(mt["d_statistic"]) =
                    Thousandths(mt["frequencies_below_threshold"])
                  - Thousandths(mt["expected_below_threshold"])

\* ------------------------------------------------------ template matching
\* Test i of the suite has been executed in the current call of runTests
Executed(i) ==
    \/ i <= Len(results)
    \/ suite_pc = "crashed" /\ i = Len(results) + 1

\* C26: the default non-overlapping template test (m = 9), once past its
\* length check, works on 8 blocks of floor(n / 8) bits and reads no index
\* outside [0, n).
C26_DefaultTemplatePartition ==
    \A i \in DOMAIN m_tests :
        LET test == m_tests[i]
            n == Len(suite_data)
        IN  ( /\ Executed(i)
              /\ test = WithAlpha(Test("NonOverlappingTemplate", 8, 9), test.m_alpha)
              /\ n >= 100 * test.m_block_size )
            => /\ TemplateBlocks(n, test.m_block_size) = 8
               /\ test.m_block_size = n \div 8
               /\ TemplateLastRead(n, test.m_block_size, test.m_template_length) < n

\* ------------------------------------------------------ CPUFeatures::detect
\* C28: at most one CPUFeatures object is ever constructed, and all calls of
\* detect(), by whichever thread, return the same instance.
C28_SingleInstance ==
    /\ created <= 1
    /\ Cardinality(UNION {detect_pc[t].got : t \in DOMAIN detect_pc}) <= 1

\* C27: every task of the monitor has a percent_complete between 0 and 1, and
\* a task whose completed flag is set has percent_complete = 1.0.
C27_TaskPercentInvariant ==
    \A name \in DOMAIN m_tasks :
        /\ Geq(m_tasks[name].percent_complete, Dbl(0))
        /\ Leq(m_tasks[name].percent_complete, Dbl(1000))
        /\ m_tasks[name].completed => m_tasks[name].percent_complete = Dbl(1000)

\* The destructor of a ProgressMonitor, once begun, completes: the
\* monitoring thread leaves its loop and the join returns (a notification
\* that finds no waiter costs at most one interval of wait_for).
DestructorCompletes ==
    (owner_pc \in {"stopping", "joining"}) ~> (owner_pc = "destroyed")

\* C30: the destructor of the monitor completes and so a call process(N)
\* with N >= 1 returns: it never ends otherwise than by its return.
C30_ProcessReturns == iterations >= 1 => pc # "crashed"

====
